---- MODULE Spec2Model ----
(***************************************************************************)
(* Peer discovery and peer selection of the ApiClient (src/lib/index.js):  *)
(* findPeers, fetchPeerConfig, selectApiPeer, connect and the helpers      *)
(* mergePeerArrays and getPeerVersion.                                     *)
(*                                                                         *)
(* JavaScript values that may be undefined, null, a number or an object    *)
(* are modelled as tagged records (Undef, Null, Num(n), Arr(s), Obj(o)).   *)
(* A peer record is a function from the names of the fields it has to      *)
(* their values, so that an absent field is really absent and the object   *)
(* spread {...a, ...b} is the overlay of two such functions.               *)
(***************************************************************************)
EXTENDS Integers, Sequences, FiniteSets, TLC

\* ------------------------------------------------------------------ bounds

\* Longest candidate list (peersOverride) handed to findPeers.
MaxCands == 3
\* Longest peer list carried by one probe response.
MaxResp == 2

\* --------------------------------------------------------- JavaScript values

Undef == [t |-> "undefined"]
Null == [t |-> "null"]
Num(n) == [t |-> "number", v |-> n]
Str(s) == [t |-> "string", v |-> s]
Arr(s) == [t |-> "array", v |-> s]
Obj(o) == [t |-> "object", v |-> o]

\* JavaScript truthiness of a tagged value.
Truthy(x) ==
  CASE x.t = "undefined" -> FALSE
    [] x.t = "null" -> FALSE
    [] x.t = "number" -> x.v # 0
    [] x.t = "string" -> x.v # ""
    [] OTHER -> TRUE

\* Sequences over S of length at most n.
SeqUpTo(S, n) == UNION {[1..k -> S] : k \in 0..n}

\* ------------------------------------------------------------ pure helpers

\* peer.ip, undefined when the record has no ip; two records match when
\* peer.ip === other.ip, so two records without ip match each other.
IpOf(peer) == IF "ip" \in DOMAIN peer THEN Str(peer.ip) ELSE Undef

\* Index of the first record of arr with the ip of peer, 0 when there is none
\* (Array.prototype.find with peer => peer.ip === x.ip).
RECURSIVE FindByIpFrom(_, _, _)
FindByIpFrom(arr, ip, i) ==
  IF i > Len(arr) THEN 0
  ELSE IF IpOf(arr[i]) = ip THEN i
  ELSE FindByIpFrom(arr, ip, i + 1)

\* FindByIp that finds nothing.
FindByIpNever(arr, ip) == 0

FindByIp(arr, ip) == FindByIpFrom(arr, ip, 1)

\* Spread with the old record's values winning.
SpreadOldWins(oldPeer, newPeer) ==
  [f \in (DOMAIN oldPeer) \cup (DOMAIN newPeer) |->
     IF f \in DOMAIN oldPeer THEN oldPeer[f] ELSE newPeer[f]]

\* { ...oldPeer, ...newPeer }: every field of either, newPeer's value winning.
Spread(oldPeer, newPeer) ==
  [f \in (DOMAIN oldPeer) \cup (DOMAIN newPeer) |->
     IF f \in DOMAIN newPeer THEN newPeer[f] ELSE oldPeer[f]]

\* OverlayOld that pushes only the old peers that have a match.
RECURSIVE OverlayOldDropsUnmatched(_, _, _)
OverlayOldDropsUnmatched(oldArray, newArray, i) ==
  IF i > Len(oldArray) THEN <<>>
  ELSE LET j == FindByIp(newArray, IpOf(oldArray[i]))
       IN IF j = 0
          THEN OverlayOldDropsUnmatched(oldArray, newArray, i + 1)
          ELSE <<Spread(oldArray[i], newArray[j])>>
                 \o OverlayOldDropsUnmatched(oldArray, newArray, i + 1)

\* First loop of mergePeerArrays: each old peer overlaid with the first new
\* peer of the same ip, or with {} when there is none.
RECURSIVE OverlayOld(_, _, _)
OverlayOld(oldArray, newArray, i) ==
  IF i > Len(oldArray) THEN <<>>
  ELSE LET j == FindByIp(newArray, IpOf(oldArray[i]))
           merged == IF j = 0 THEN oldArray[i]
                     ELSE Spread(oldArray[i], newArray[j])
       IN <<merged>> \o OverlayOld(oldArray, newArray, i + 1)

\* AppendNew that pushes every new peer.
AppendNewNoCheck(acc, newArray, i) == acc \o newArray

\* Second loop of mergePeerArrays: each new peer is pushed unless a record of
\* the output built so far has its ip.
RECURSIVE AppendNew(_, _, _)
AppendNew(acc, newArray, i) ==
  IF i > Len(newArray) THEN acc
  ELSE IF FindByIp(acc, IpOf(newArray[i])) # 0
       THEN AppendNew(acc, newArray, i + 1)
       ELSE AppendNew(Append(acc, newArray[i]), newArray, i + 1)

mergePeerArrays(oldArray, newArray) ==
  AppendNew(OverlayOld(oldArray, newArray, 1), newArray, 1)

\* The characters of the version strings of the model.
Chars(s) ==
  CASE s = "" -> <<>>
    [] s = "1" -> <<"1">>
    [] s = "1." -> <<"1", ".">>
    [] s = "1.0.3" -> <<"1", ".", "0", ".", "3">>
    [] s = "1.6.0-beta" -> <<"1", ".", "6", ".", "0", "-", "b", "e", "t", "a">>
    [] s = "10.2.0" -> <<"1", "0", ".", "2", ".", "0">>
    [] s = "2.0.0" -> <<"2", ".", "0", ".", "0">>
    [] s = "2.1.0" -> <<"2", ".", "1", ".", "0">>
    [] s = "2.1.1." -> <<"2", ".", "1", ".", "1", ".">>
    [] s = "v1.0" -> <<"v", "1", ".", "0">>
    [] s = "2" -> <<"2">>
    [] s = "http://" -> <<"h", "t", "t", "p", ":", "/", "/">>
    [] s = "10.0.0.1" -> <<"1", "0", ".", "0", ".", "0", ".", "1">>
    [] s = "10.0.0.2" -> <<"1", "0", ".", "0", ".", "0", ".", "2">>
    [] s = "10.0.0.3" -> <<"1", "0", ".", "0", ".", "0", ".", "3">>
    [] s = "10.0.0.4" -> <<"1", "0", ".", "0", ".", "0", ".", "4">>
    [] s = "2001:db8::7" ->
         <<"2", "0", "0", "1", ":", "d", "b", "8", ":", ":", "7">>

\* The regular expression without its escaped dot, /^1/.
StartsWithOne(s) == Len(Chars(s)) >= 1 /\ Chars(s)[1] = "1"

\* /^1\./.test(version): the first two characters are "1" and ".".
StartsWithOneDot(s) ==
  Len(Chars(s)) >= 2 /\ Chars(s)[1] = "1" /\ Chars(s)[2] = "."

getPeerVersion(peer) ==
  IF "version" \notin DOMAIN peer \/ peer.version = ""
     \/ StartsWithOneDot(peer.version)
  THEN 1 ELSE 2

\* ----------------------------------------------------------- collaborators

\* utils/sort-peers: descending height, then ascending delay; equal peers keep
\* their order.
Before(a, b) ==
  a.height > b.height \/ (a.height = b.height /\ a.delay < b.delay)

RECURSIVE InsertSorted(_, _)
InsertSorted(sorted, p) ==
  IF sorted = <<>> THEN <<p>>
  ELSE IF Before(p, Head(sorted)) THEN <<p>> \o sorted
  ELSE <<Head(sorted)>> \o InsertSorted(Tail(sorted), p)

RECURSIVE sortPeers(_)
sortPeers(list) ==
  IF list = <<>> THEN <<>>
  ELSE InsertSorted(sortPeers(SubSeq(list, 1, Len(list) - 1)), list[Len(list)])

\* lodash.shuffle(array): every rearrangement of array is a possible return
\* value; the argument itself is left as it is.
shuffle(array) ==
  {[i \in 1..Len(array) |-> array[p[i]]] : p \in Permutations(1..Len(array))}

\* Candidate peers of the seed table and of the override lists.
candA == [ip |-> "10.0.0.1", port |-> 4001, height |-> 5, delay |-> 10]
candB == [ip |-> "10.0.0.2", port |-> 4002, height |-> 7, delay |-> 20,
          isHttps |-> TRUE]
CandPool == {candA, candB}

\* peers.js: the static seed table, network name -> candidate list.
initialPeers == [mainnet |-> <<candA, candB>>, devnet |-> <<candB>>]

Networks == {"mainnet", "devnet", "testnet"}
Versions == {Undef, Num(0), Num(1), Num(2)}
Overrides == {Undef} \cup {Arr(l) : l \in SeqUpTo(CandPool, MaxCands)}

\* The calls of findPeers that are explored: every network without an
\* override list, a known and an unknown network with every override list.
FindPeersCalls ==
  {c \in [network : Networks, version : Versions, peersOverride : Overrides] :
     c.peersOverride = Undef \/ c.network \in {"devnet", "testnet"}}

\* Peers a probed node may report.
respOk == [ip |-> "10.0.0.3", port |-> 4001, status |-> Str("OK"),
           height |-> 6, delay |-> 30]
respOk200 == [ip |-> "10.0.0.3", port |-> 4100, version |-> "1.0.3",
              status |-> Num(200), height |-> 9, delay |-> 1]
respDown == [ip |-> "10.0.0.4", port |-> 4001, version |-> "1.6.0-beta",
             status |-> Num(500), height |-> 8, delay |-> 2]
respV2 == [ip |-> "10.0.0.4", port |-> 4002, version |-> "2.1.0",
           status |-> Str("OK"), height |-> 7, delay |-> 3]
respV2b == [ip |-> "10.0.0.3", port |-> 4002, version |-> "2.0.0",
            height |-> 7, delay |-> 1]
respSelf == [ip |-> "127.0.0.1", port |-> 4002, version |-> "2.1.0",
             status |-> Str("OK"), height |-> 9, delay |-> 0]
RespPool == {respOk, respOk200, respDown, respV2, respV2b, respSelf}
RespLists == SeqUpTo(RespPool, MaxResp)

\* Bodies of a "list peers" response to a client of version cv: every body
\* of that version's shape ({success, peers} for 1, {data} for 2), and some
\* bodies that are not what the version promises (a failure report, a
\* missing field, an empty object, no body, the other version's shape).
PeerBodies(cv) ==
  (IF cv = 1
   THEN {Obj([success |-> TRUE, peers |-> l]) : l \in RespLists}
   ELSE {Obj([data |-> l]) : l \in RespLists})
    \cup {Obj([success |-> FALSE, peers |-> <<respOk>>]),
          Obj([success |-> TRUE]), Obj(<<>>), Undef,
          Obj([success |-> TRUE, peers |-> <<respOk>>]),
          Obj([data |-> <<respV2>>])}

\* -------------------------------------------------------------------- state

VARIABLES
  op,            \* the method that was called last
  pc,            \* "idle", "probe" (findPeers awaits a peer list), "config"
                 \* (fetchPeerConfig awaits a configuration),
                 \* "configReturned" (fetchPeerConfig has returned and
                 \* selectApiPeer has not resumed), "findPeersSettled",
                 \* "selectReturned" (the callee has settled and connect
                 \* has not resumed), "done", "error"
  network,       \* arguments of the call
  version,
  peersOverride,
  networkPeers,  \* findPeers: the list the loop iterates
  shuffled,      \* findPeers: what shuffle(networkPeers) returned
  idx,           \* findPeers: position of the loop in networkPeers
  checks,        \* findPeers: let checks
  peers,         \* findPeers: let peers
  probed,        \* every peerUrl a peer list was requested from, in order
  lastProbe,     \* what the latest of these requests yielded: "rejected",
                 \* "threw" (reading the body threw), "empty" (no peer
                 \* read off the body), "dropped" (peers read off the
                 \* body, none passing the filter), "kept" (peers read
                 \* off the body, some passing the filter); "none" before
  result,        \* the list findPeers returned
  selPeers,      \* selectApiPeer: its argument
  selIdx,        \* selectApiPeer: position of the loop in selPeers
  attempt,       \* fetchPeerConfig: position of the loop in attempts
  cfgReqs,       \* every configuration request sent, in order
  config,        \* the last value fetchPeerConfig returned
  fetched,       \* every value fetchPeerConfig returned, in order
  selResult,     \* what selectApiPeer returned
  handle,        \* the ApiClient connect returned
  err,           \* the error the call failed with, "none" otherwise
  fnArgs,        \* the arguments of a call of mergePeerArrays or
                 \* getPeerVersion on its own
  fnResult       \* what that call returned

argVars == <<op, network, version, peersOverride>>
findVars == <<networkPeers, shuffled, idx, checks, peers, probed, lastProbe>>
selVars == <<selPeers, selIdx, attempt, cfgReqs, config, fetched, selResult>>
endVars == <<pc, err, handle>>
fnVars == <<fnArgs, fnResult>>
vars == <<argVars, findVars, result, selVars, endVars, fnVars>>

Init ==
  /\ op = "none" /\ pc = "idle"
  /\ network = "" /\ version = Undef /\ peersOverride = Undef
  /\ networkPeers = <<>> /\ shuffled = <<>>
  /\ idx = 0 /\ checks = 0 /\ peers = <<>> /\ probed = <<>>
  /\ lastProbe = "none"
  /\ result = <<>>
  /\ selPeers = <<>> /\ selIdx = 0 /\ attempt = 0 /\ cfgReqs = <<>>
  /\ config = Undef /\ fetched = <<>> /\ selResult = Undef
  /\ handle = Null /\ err = "none"
  /\ fnArgs = <<>> /\ fnResult = Undef

\* ------------------------------------------------- constructor, setVersion

\* The errors the static methods throw, named after their messages.
UnsupportedNetworkError == "Network is not supported"
InvalidVersionError == "A valid API version is required"
NoApiPeerError == "No peer with core-api enabled has been found"

\* The fields of a client: the host its HTTP connection is bound to and
\* its version (the connection's version is set along with it).
BlankClient == [host |-> Undef, version |-> Undef]

\* this.setConnection(host): a new connection to host.
setConnection(this, host) == [this EXCEPT !.host = host]

\* this.setVersion(version): throws when the version is falsy, and sets the
\* version of the client and of its connection otherwise.
setVersion(this, v) ==
  IF ~Truthy(v)
  THEN pc' = "error" /\ err' = InvalidVersionError
       /\ UNCHANGED handle
  ELSE pc' = "done" /\ err' = "none"
       /\ handle' = Obj([this EXCEPT !.version = v.v])

\* new ApiClient(host, version): setConnection(host); setVersion(version || 1)
NewApiClient(host, v) ==
  setVersion(setConnection(BlankClient, host),
             IF Truthy(v) THEN v ELSE Num(1))

\* The version of the scratch client findPeers builds: new ApiClient('http://',
\* version) with the same version || 1.
ScratchVersion(fv) == IF fv = 0 THEN 1 ELSE fv

\* `${scheme}${peer.ip}:${peer.port}` as its three parts.
Url(scheme, peer) == [scheme |-> scheme, ip |-> peer.ip, port |-> peer.port]

PeerUrl(peer) ==
  Url(IF "isHttps" \in DOMAIN peer /\ peer.isHttps THEN "https://"
      ELSE "http://", peer)

\* ------------------------------------------- fetchPeerConfig, selectApiPeer

CoreApi == "@arkecosystem/core-api"
WalletApiPort == 4040

DigitChars == <<"0", "1", "2", "3", "4", "5", "6", "7", "8", "9">>
IsDigit(c) == \E d \in DOMAIN DigitChars : DigitChars[d] = c

\* The decimal digits of n, as `${n}` writes them.
RECURSIVE Digits(_)
Digits(n) ==
  IF n < 10 THEN <<DigitChars[n + 1]>>
  ELSE Digits(n \div 10) \o <<DigitChars[(n % 10) + 1]>>

\* The characters of the host string `http://${peer.ip}:${peer.port}`.
HostString(url) ==
  Chars(url.scheme) \o Chars(url.ip) \o <<":">> \o Digits(url.port)

\* What is left of host from position j on, after the digits that start
\* there (\d+ takes as many digits as there are).
RECURSIVE AfterDigits(_, _)
AfterDigits(host, j) ==
  IF j > Len(host) THEN <<>>
  ELSE IF IsDigit(host[j]) THEN AfterDigits(host, j + 1)
  ELSE SubSeq(host, j, Len(host))

\* host with the first match of /:\d+/ at or after position k replaced by
\* ":4040"; host itself when there is no match.
RECURSIVE ReplacePortFrom(_, _)
ReplacePortFrom(host, k) ==
  IF k >= Len(host) THEN host
  ELSE IF host[k] = ":" /\ IsDigit(host[k + 1])
  THEN SubSeq(host, 1, k - 1) \o <<":">> \o Digits(WalletApiPort)
         \o AfterDigits(host, k + 1)
  ELSE ReplacePortFrom(host, k + 1)

\* host.replace(/:\d+/, ':4040'): the first colon that a digit follows, and
\* the digits after it, become ":4040".
walletApiHost(host) == ReplacePortFrom(host, 1)

\* const attempts = [...]
attempts(host) ==
  << [host |-> host, endpoint |-> Str("/config")],
     [host |-> walletApiHost(host), endpoint |-> Str("/config")],
     [host |-> walletApiHost(host), endpoint |-> Null] >>

\* The request fetchPeerConfig sends for peer i of list at attempt a.
ConfigRequest(list, i, a) ==
  LET at == attempts(HostString(Url("http://", list[i])))[a]
  IN [peer |-> i, host |-> at.host, endpoint |-> at.endpoint]

\* if (data) return data.data: whether the attempt that got body `data` ends
\* fetchPeerConfig.
AttemptReturns(data) == Truthy(data)

\* data.data of a truthy body; undefined when the body has no such field.
DataOf(data) ==
  IF data.t = "object" /\ "data" \in DOMAIN data.v THEN data.v.data ELSE Undef

\* ApiEnabled without the test of the enabled flag.
ApiEnabledIgnoringFlag(cfg) ==
  /\ Truthy(cfg)
  /\ cfg.t = "object"
  /\ "plugins" \in DOMAIN cfg.v
  /\ CoreApi \in DOMAIN cfg.v.plugins

\* config && config.plugins && config.plugins[CoreApi] &&
\* config.plugins[CoreApi].enabled
ApiEnabled(cfg) ==
  /\ Truthy(cfg)
  /\ cfg.t = "object"
  /\ "plugins" \in DOMAIN cfg.v
  /\ CoreApi \in DOMAIN cfg.v.plugins
  /\ "enabled" \in DOMAIN cfg.v.plugins[CoreApi]
  /\ cfg.v.plugins[CoreApi].enabled

\* ApiPeer without the port override.
ApiPeerKeepsPort(peer, cfg) == peer

\* { ...peer, port: config.plugins[CoreApi].port }
ApiPeer(peer, cfg) == Spread(peer, [port |-> cfg.v.plugins[CoreApi].port])

\* connect, after selectApiPeer returned p.
ConnectBinds(ver, p) ==
  IF ~Truthy(p)
  THEN pc' = "error" /\ err' = NoApiPeerError
       /\ UNCHANGED handle
  ELSE NewApiClient(Url("http://", p.v), ver)

\* selectApiPeer returns p: its promise resolves, and a connect that awaits
\* it (line 176) resumes in a later turn.
SelectReturns(o, p) ==
  /\ selResult' = p
  /\ pc' = IF o = "selectApiPeer" THEN "done" ELSE "selectReturned"
  /\ UNCHANGED <<err, handle>>

\* selectApiPeer(list) up to its first await.
SelectStart(o, list) ==
  /\ selPeers' = list
  /\ UNCHANGED <<config, fetched>>
  /\ IF list = <<>>
     THEN /\ UNCHANGED <<selIdx, attempt, cfgReqs>>
          /\ SelectReturns(o, Null)
     ELSE /\ selIdx' = 1 /\ attempt' = 1
          /\ cfgReqs' = Append(cfgReqs, ConfigRequest(list, 1, 1))
          /\ pc' = "config"
          /\ UNCHANGED <<selResult, err, handle>>

\* fetchPeerConfig returns cfg: its promise resolves, and selectApiPeer,
\* which awaits it (line 148), resumes in a later turn.
FetchPeerConfigReturns(cfg) ==
  /\ config' = cfg
  /\ fetched' = Append(fetched, cfg)
  /\ pc' = "configReturned"
  /\ UNCHANGED <<selPeers, selIdx, attempt, cfgReqs, selResult, err, handle>>

\* ConfigFetched giving up at the first peer whose configuration does not
\* enable the sub-service.
ConfigFetchedStopsEarly(cfg) ==
  /\ UNCHANGED <<selPeers, selIdx, attempt, cfgReqs, config, fetched>>
  /\ IF ApiEnabled(cfg)
     THEN SelectReturns(op, Obj(ApiPeer(selPeers[selIdx], cfg)))
     ELSE SelectReturns(op, Null)

\* selectApiPeer resumes with the configuration cfg of selPeers[selIdx]:
\* the rest of that iteration, up to the next await or the return.
ConfigFetched(cfg) ==
  /\ UNCHANGED <<selPeers, config, fetched>>
  /\ IF ApiEnabled(cfg)
     THEN /\ UNCHANGED <<selIdx, attempt, cfgReqs>>
          /\ SelectReturns(op, Obj(ApiPeer(selPeers[selIdx], cfg)))
     ELSE IF selIdx < Len(selPeers)
     THEN /\ selIdx' = selIdx + 1 /\ attempt' = 1
          /\ cfgReqs' = Append(cfgReqs, ConfigRequest(selPeers, selIdx + 1, 1))
          /\ pc' = "config"
          /\ UNCHANGED <<selResult, err, handle>>
     ELSE /\ UNCHANGED <<selIdx, attempt, cfgReqs>>
          /\ SelectReturns(op, Null)

\* An attempt of fetchPeerConfig ended without returning: the next attempt,
\* or return null after the last.
AttemptFailed ==
  IF attempt < Len(attempts(HostString(Url("http://", selPeers[selIdx]))))
  THEN /\ attempt' = attempt + 1
       /\ cfgReqs' = Append(cfgReqs, ConfigRequest(selPeers, selIdx, attempt + 1))
       /\ UNCHANGED <<selPeers, selIdx, config, fetched, selResult, endVars>>
  ELSE FetchPeerConfigReturns(Null)

\* httpClient.sendRequest rejected (connection error, timeout, HTTP error).
ConfigRejects ==
  /\ pc = "config"
  /\ AttemptFailed
  /\ UNCHANGED <<argVars, findVars, result, fnVars>>

\* httpClient.sendRequest resolved with a response whose body is `data`.
ConfigResponds(data) ==
  /\ pc = "config"
  /\ IF AttemptReturns(data)
     THEN FetchPeerConfigReturns(DataOf(data))
     ELSE AttemptFailed
  /\ UNCHANGED <<argVars, findVars, result, fnVars>>

\* const config = await ApiClient.fetchPeerConfig(host) resumes.
SelectResumes ==
  /\ pc = "configReturned"
  /\ ConfigFetched(config)
  /\ UNCHANGED <<argVars, findVars, result, fnVars>>

\* peer = await ApiClient.selectApiPeer(peers) resumes: connect goes on to
\* its throw or its return.
ConnectResumesSelected ==
  /\ pc = "selectReturned"
  /\ ConnectBinds(version, selResult)
  /\ UNCHANGED <<argVars, findVars, result, selVars, fnVars>>

\* ConnectContinues without the version 1 branch.
ConnectAlwaysSelects(ver, res) == SelectStart("connect", res)

\* connect, after findPeers returned res.
ConnectContinues(ver, res) ==
  IF ver = Num(1)
  THEN /\ UNCHANGED selVars
       /\ IF res = <<>>
          THEN pc' = "error" /\ err' = "TypeError" /\ UNCHANGED handle
          ELSE NewApiClient(Url("http://", res[1]), ver)
  ELSE SelectStart("connect", res)

\* const peers = await ApiClient.findPeers(...) resumes: with the error
\* findPeers threw, or with the list it returned.
ConnectResumesFound ==
  /\ pc = "findPeersSettled"
  /\ IF err # "none"
     THEN pc' = "error" /\ UNCHANGED <<err, handle, selVars>>
     ELSE ConnectContinues(version, result)
  /\ UNCHANGED <<argVars, findVars, result, fnVars>>

\* ---------------------------------------------------------------- findPeers

selfIps == {"127.0.0.1", "::ffff:127.0.0.1", "::1"}
versionStatus == {Str("OK"), Num(200)}
Quorum == 2

\* function findPeers (network, version = 1, peersOverride)
DefaultVersion(ver) == IF ver = Undef THEN 1 ELSE ver.v

\* NetworkUnsupported without the test of the override list.
NetworkUnsupportedDespiteOverride(net, ovr) == net \notin DOMAIN initialPeers

\* peersOverride === undefined && !initialPeers.hasOwnProperty(network)
NetworkUnsupported(net, ovr) == ovr = Undef /\ net \notin DOMAIN initialPeers

\* peersOverride || initialPeers[network]
CandidatesOf(net, ovr) == IF Truthy(ovr) THEN ovr.v ELSE initialPeers[net]

\* The order the loop visits the candidates in: shuffle's return value is
\* dropped and the loop runs over networkPeers itself.
ProbeOrder(np, sh) == np

Thrown == [t |-> "thrown"]

\* The peer list read off a response body under findPeers version fv, or
\* Thrown when reading it throws (a property of undefined).
ResponsePeers(fv, data) ==
  IF fv = 1
  THEN IF data = Undef THEN Thrown
       ELSE IF "success" \in DOMAIN data.v /\ data.v.success
               /\ "peers" \in DOMAIN data.v
       THEN Arr(data.v.peers) ELSE Arr(<<>>)
  ELSE IF fv = 2
  THEN IF data = Undef \/ "data" \notin DOMAIN data.v THEN Thrown
       ELSE IF Len(data.v.data) # 0 THEN Arr(data.v.data) ELSE Arr(<<>>)
  ELSE Arr(<<>>)

\* KeepPeer without the test of the self addresses.
KeepPeerWithSelf(fv, peer) ==
  IF fv = 1 /\ ("status" \notin DOMAIN peer \/ peer.status \notin versionStatus)
  THEN FALSE
  ELSE getPeerVersion(peer) = fv

\* The callback of responsePeers.filter
KeepPeer(fv, peer) ==
  IF fv = 1 /\ ("status" \notin DOMAIN peer \/ peer.status \notin versionStatus)
  THEN FALSE
  ELSE /\ ("ip" \notin DOMAIN peer \/ peer.ip \notin selfIps)
       /\ getPeerVersion(peer) = fv

FilterPeers(fv, list) == SelectSeq(list, LAMBDA peer : KeepPeer(fv, peer))

\* Counted taken after the filter instead of before it.
CountedIfKept(responsePeers) ==
  Len(SelectSeq(responsePeers,
                LAMBDA peer : KeepPeer(DefaultVersion(version), peer))) # 0

\* if (responsePeers.length): whether the response is merged and counted.
Counted(responsePeers) == Len(responsePeers) # 0

\* QuorumReached with an off-by-one comparison.
QuorumReachedLate(c) == c > Quorum

\* if (checks >= 2) break
QuorumReached(c) == c >= Quorum

\* FinalPeers without the fallback to the candidates.
FinalPeersNoFallback(ps, np) == sortPeers(ps)

\* cloneDeep(sortPeers(peers && peers.length ? peers : networkPeers))
FinalPeers(ps, np) == sortPeers(IF Len(ps) # 0 THEN ps ELSE np)

\* findPeers returns res to its caller o.
FindPeersReturns(o, res) ==
  /\ result' = res
  /\ pc' = IF o = "findPeers" THEN "done" ELSE "findPeersSettled"
  /\ UNCHANGED <<err, handle, selVars>>

\* findPeers(net, ver, ovr) up to its first await, called by o.
FindPeersStart(o, net, ver, ovr) ==
  IF NetworkUnsupported(net, ovr)
  THEN /\ pc' = IF o = "findPeers" THEN "error" ELSE "findPeersSettled"
       /\ err' = UnsupportedNetworkError
       /\ UNCHANGED <<handle, findVars, result, selVars>>
  ELSE LET np == CandidatesOf(net, ovr) IN
       \E sh \in shuffle(np) :
         LET order == ProbeOrder(np, sh) IN
         /\ shuffled' = sh
         /\ networkPeers' = order
         /\ checks' = 0 /\ peers' = <<>> /\ lastProbe' = "none"
         /\ IF order = <<>>
            THEN /\ idx' = 0 /\ UNCHANGED probed
                 /\ FindPeersReturns(o, FinalPeers(<<>>, order))
            ELSE /\ idx' = 1 /\ probed' = <<PeerUrl(order[1])>>
                 /\ pc' = "probe"
                 /\ UNCHANGED <<err, handle, result, selVars>>

\* The end of one iteration of the loop: break or the end of the list lead to
\* the return, anything else to the request to the next candidate.
IterationEnds(newPeers, newChecks, brk) ==
  /\ peers' = newPeers
  /\ checks' = newChecks
  /\ UNCHANGED <<networkPeers, shuffled>>
  /\ IF brk \/ idx = Len(networkPeers)
     THEN /\ UNCHANGED <<idx, probed>>
          /\ FindPeersReturns(op, FinalPeers(newPeers, networkPeers))
     ELSE /\ idx' = idx + 1
          /\ probed' = Append(probed, PeerUrl(networkPeers[idx + 1]))
          /\ UNCHANGED <<endVars, result, selVars>>

\* OnProbeError without the try block: the error leaves findPeers.
OnProbeErrorThrows ==
  /\ pc' = "error" /\ err' = "probe failed"
  /\ UNCHANGED <<handle, networkPeers, shuffled, idx, checks, peers, probed,
                 result, selVars>>

\* OnProbeError that sends the request to the same candidate again.
OnProbeErrorRetries ==
  /\ probed' = Append(probed, PeerUrl(networkPeers[idx]))
  /\ UNCHANGED <<networkPeers, shuffled, idx, checks, peers, endVars,
                 result, selVars>>

\* catch (error) { }: the iteration ends with nothing changed.
OnProbeError == IterationEnds(peers, checks, FALSE)

\* The request for a peer list rejected (connection error, timeout).
ProbeRejects ==
  /\ pc = "probe"
  /\ lastProbe' = "rejected"
  /\ OnProbeError
  /\ UNCHANGED <<argVars, fnVars>>

\* The request for a peer list resolved with a response whose body is data.
ProbeResponds(data) ==
  /\ pc = "probe"
  /\ LET fv == DefaultVersion(version)
         rp == ResponsePeers(fv, data)
     IN IF rp = Thrown
        THEN lastProbe' = "threw" /\ OnProbeError
        ELSE /\ lastProbe' = IF Len(rp.v) = 0 THEN "empty"
                             ELSE IF Len(FilterPeers(fv, rp.v)) = 0
                             THEN "dropped" ELSE "kept"
             /\ IF ~Counted(rp.v)
                THEN IterationEnds(peers, checks, FALSE)
                ELSE IterationEnds(
                       mergePeerArrays(peers, FilterPeers(fv, rp.v)),
                       checks + 1, QuorumReached(checks + 1))
  /\ UNCHANGED <<argVars, fnVars>>

\* ApiClient.findPeers(net, ver, ovr)
FindPeersCall(net, ver, ovr) ==
  /\ pc = "idle"
  /\ op' = "findPeers" /\ network' = net /\ version' = ver
  /\ peersOverride' = ovr
  /\ FindPeersStart("findPeers", net, ver, ovr)
  /\ UNCHANGED fnVars

Next ==
  \/ \E c \in FindPeersCalls :
       FindPeersCall(c.network, c.version, c.peersOverride)
  \/ ProbeRejects
  \/ \E data \in PeerBodies(ScratchVersion(DefaultVersion(version))) :
       ProbeResponds(data)

Spec == Init /\ [][Next]_vars

\* ------------------------------------------------------------------ connect

\* Configuration documents a peer may serve.
cfgEnabled ==
  [plugins |-> (CoreApi :> [enabled |-> TRUE, port |-> 4003])]
cfgDisabled ==
  [plugins |-> (CoreApi :> [enabled |-> FALSE, port |-> 4003])]
cfgNoApi ==
  [plugins |-> ("@arkecosystem/core-p2p" :> [port |-> 4002])]
cfgNoPlugins == [network |-> "devnet"]
ConfigPool == {cfgEnabled, cfgDisabled, cfgNoApi, cfgNoPlugins}

\* Bodies of a response to a configuration request: no body, a body without
\* a data field, a null data field, a configuration document.
ConfigBodies ==
  {Undef, Str(""), Obj(<<>>), Obj([data |-> Null])}
    \cup {Obj([data |-> Obj(c)]) : c \in ConfigPool}

\* The calls of connect that are explored.
ConnectOverrides ==
  {Undef, Arr(<<>>), Arr(<<candA>>), Arr(<<candA, candB>>),
   Arr(<<candA, candB, candA>>)}

\* The peer-list bodies the probes of connect may get.
ConnectBodies ==
  {Obj([success |-> TRUE, peers |-> <<respOk>>]),
   Obj([success |-> TRUE, peers |-> <<respDown, respOk200>>]),
   Obj([data |-> <<respV2>>]),
   Obj([data |-> <<respSelf, respV2b>>]),
   Obj([data |-> <<>>])}

\* ApiClient.connect(net, ver, ovr)
ConnectCall(net, ver, ovr) ==
  /\ pc = "idle"
  /\ op' = "connect" /\ network' = net /\ version' = ver
  /\ peersOverride' = ovr
  /\ FindPeersStart("connect", net, ver, ovr)
  /\ UNCHANGED fnVars

\* The hosts a client is rebound to by a call of setConnection.
SetHosts == {Url("http://", [ip |-> "10.0.0.9", port |-> 4003])}

\* handle.setVersion(v), on the client connect returned.
SetVersionCall(v) ==
  /\ pc \in {"done", "error"} /\ handle # Null
  /\ op' = "setVersion"
  /\ setVersion(handle.v, v)
  /\ UNCHANGED <<network, version, peersOverride, findVars, result, selVars,
                 fnVars>>

\* handle.setConnection(host), on the client connect returned.
SetConnectionCall(host) ==
  /\ pc \in {"done", "error"} /\ handle # Null
  /\ op' = "setConnection"
  /\ handle' = Obj(setConnection(handle.v, host))
  /\ pc' = "done" /\ err' = "none"
  /\ UNCHANGED <<network, version, peersOverride, findVars, result, selVars,
                 fnVars>>

NextConnect ==
  \/ \E net \in Networks, ver \in Versions, ovr \in ConnectOverrides :
       ConnectCall(net, ver, ovr)
  \/ ProbeRejects
  \/ \E data \in ConnectBodies : ProbeResponds(data)
  \/ ConnectResumesFound
  \/ ConfigRejects
  \/ \E data \in ConfigBodies : ConfigResponds(data)
  \/ SelectResumes
  \/ ConnectResumesSelected
  \/ \E v \in Versions : SetVersionCall(v)
  \/ \E host \in SetHosts : SetConnectionCall(host)

SpecConnect == Init /\ [][NextConnect]_vars

\* ------------------------------------------------------- selectApiPeer alone

MaxSel == 2

peerV6 == [ip |-> "2001:db8::7", port |-> 4002, height |-> 3, delay |-> 0]
SelPool == {respV2, respV2b, peerV6}
SelLists == SeqUpTo(SelPool, MaxSel)

\* ApiClient.selectApiPeer(list)
SelectApiPeerCall(list) ==
  /\ pc = "idle"
  /\ op' = "selectApiPeer"
  /\ SelectStart("selectApiPeer", list)
  /\ UNCHANGED <<network, version, peersOverride, findVars, result, fnVars>>

NextSelect ==
  \/ \E list \in SelLists : SelectApiPeerCall(list)
  \/ ConfigRejects
  \/ \E data \in ConfigBodies : ConfigResponds(data)
  \/ SelectResumes

SpecSelect == Init /\ [][NextSelect]_vars

\* ------------------------------------- every awaited request is settled

\* A request for a peer list is settled: it rejects or it resolves.
ProbeSettles ==
  ProbeRejects \/ \E data \in ConnectBodies : ProbeResponds(data)

\* A request for a configuration is settled: it rejects or it resolves.
ConfigSettles ==
  ConfigRejects \/ \E data \in ConfigBodies : ConfigResponds(data)

\* The peer lists selectApiPeer is given in these runs.
LiveLists == {<<>>, <<respV2>>, <<peerV6, respV2b>>, <<respV2, respV2>>}

\* Runs of findPeers and of selectApiPeer, each await of which ends: the
\* HTTP client settles every request (a response, an error or its timeout).
NextLive ==
  \/ \E net \in Networks, ver \in Versions, ovr \in ConnectOverrides :
       FindPeersCall(net, ver, ovr)
  \/ \E list \in LiveLists : SelectApiPeerCall(list)
  \/ ProbeSettles
  \/ ConfigSettles
  \/ SelectResumes

\* Every awaited request is settled, and a function whose awaited call has
\* returned is resumed (its continuation is on the microtask queue).
SpecLive ==
  /\ Init /\ [][NextLive]_vars
  /\ WF_vars(ProbeSettles) /\ WF_vars(ConfigSettles) /\ WF_vars(SelectResumes)

\* ------------------------------------- mergePeerArrays, getPeerVersion alone

MaxMerge == 2

\* Records to merge: two sightings of the peer B that differ in port and
\* version, and a record without ip.
mergeA == [ip |-> "A", port |-> 1]
mergeB == [ip |-> "B", port |-> 2]
mergeB2 == [ip |-> "B", port |-> 22, version |-> "2"]
mergeC == [ip |-> "C", port |-> 3]
mergeNoIp == [port |-> 9]
MergePool == {mergeA, mergeB, mergeB2, mergeC, mergeNoIp}
MergeLists == SeqUpTo(MergePool, MaxMerge)

\* Records to classify: no version, and each version string of the model.
VersionStrings ==
  {"", "1", "1.", "1.0.3", "1.6.0-beta", "10.2.0", "2.0.0", "2.1.0",
   "2.1.1.", "v1.0"}
VersionPeers ==
  {[ip |-> "10.0.0.1", port |-> 4001]}
    \cup {[ip |-> "10.0.0.1", port |-> 4001, version |-> v] :
            v \in VersionStrings}

\* The calls of the two helpers that are explored.
PureCalls ==
  {[fn |-> "mergePeerArrays", oldArray |-> b, newArray |-> n] :
     b \in MergeLists, n \in MergeLists}
    \cup {[fn |-> "getPeerVersion", peer |-> p] : p \in VersionPeers}

InitPure ==
  /\ op = "none" /\ pc = "idle"
  /\ network = "" /\ version = Undef /\ peersOverride = Undef
  /\ networkPeers = <<>> /\ shuffled = <<>>
  /\ idx = 0 /\ checks = 0 /\ peers = <<>> /\ probed = <<>>
  /\ lastProbe = "none"
  /\ result = <<>>
  /\ selPeers = <<>> /\ selIdx = 0 /\ attempt = 0 /\ cfgReqs = <<>>
  /\ config = Undef /\ fetched = <<>> /\ selResult = Undef
  /\ handle = Null /\ err = "none"
  /\ fnArgs \in PureCalls /\ fnResult = Undef

\* mergePeerArrays(oldArray, newArray)
MergePeerArraysCall ==
  /\ pc = "idle" /\ fnArgs.fn = "mergePeerArrays"
  /\ op' = "mergePeerArrays" /\ pc' = "done"
  /\ fnResult' = Arr(mergePeerArrays(fnArgs.oldArray, fnArgs.newArray))
  /\ UNCHANGED <<network, version, peersOverride, findVars, result, selVars,
                 err, handle, fnArgs>>

\* getPeerVersion(peer)
GetPeerVersionCall ==
  /\ pc = "idle" /\ fnArgs.fn = "getPeerVersion"
  /\ op' = "getPeerVersion" /\ pc' = "done"
  /\ fnResult' = Num(getPeerVersion(fnArgs.peer))
  /\ UNCHANGED <<network, version, peersOverride, findVars, result, selVars,
                 err, handle, fnArgs>>

NextPure == MergePeerArraysCall \/ GetPeerVersionCall

SpecPure == InitPure /\ [][NextPure]_vars

\* ===================================================================
\* Properties of findPeers (checked under Spec)
\* ===================================================================

Range(seq) == {seq[i] : i \in DOMAIN seq}
Count(seq, x) == Cardinality({i \in DOMAIN seq : seq[i] = x})

\* seq1 and seq2 hold the same records, each as many times.
SameRecords(seq1, seq2) ==
  /\ Len(seq1) = Len(seq2)
  /\ \A x \in Range(seq1) \cup Range(seq2) : Count(seq1, x) = Count(seq2, x)

\* The candidate list the call was given (the override, else the seed list).
GivenCandidates ==
  IF peersOverride # Undef THEN peersOverride.v ELSE initialPeers[network]

FindPeersReturned == op = "findPeers" /\ pc = "done"

\* C1: findPeers given a non-empty candidate list never returns an empty
\* list, whatever the probes did; when no peer was accumulated the returned
\* list holds exactly the candidates it was given.
C1_NeverEmpty ==
  (FindPeersReturned /\ GivenCandidates # <<>>) =>
     /\ result # <<>>
     /\ (peers = <<>> => SameRecords(result, GivenCandidates))

\* Two responses were counted, every peer of both was filtered out, and the
\* three candidates came back.
C1_Witness ==
  /\ FindPeersReturned
  /\ checks = 2 /\ peers = <<>>
  /\ Len(GivenCandidates) = 3 /\ Len(result) = 3

\* C2: checks never exceeds 2; once it is 2 no further candidate is probed;
\* and findPeers returns with fewer than 2 checks only after it has probed
\* every candidate.
C2_QuorumStops ==
  /\ [](checks <= 2)
  /\ [][checks >= 2 => probed' = probed]_vars
  /\ [](FindPeersReturned =>
          (checks = 2 \/ Len(probed) = Len(networkPeers)))
  /\ [](pc = "probe" => checks < 2 /\ Len(probed) = idx)

\* The second check succeeded on the second of three candidates: the third
\* is never probed.
C2_Witness ==
  /\ FindPeersReturned
  /\ checks = 2 /\ Len(probed) = 2 /\ Len(networkPeers) = 3

\* A step in which a probe failed: the awaited request rejected, reading
\* the body threw, or the body held no peer list where the version has it.
FailedProbe ==
  pc = "probe" /\ lastProbe' \in {"rejected", "threw", "empty"}

\* C3: a failed probe leaves peers and checks as they were and raises no
\* error; the next candidate is probed if there is one, and otherwise
\* findPeers returns a list.
C3_FailureIsolated ==
  [][FailedProbe =>
       /\ peers' = peers /\ checks' = checks
       /\ err' = "none"
       /\ IF idx < Len(networkPeers)
          THEN /\ pc' = "probe"
               /\ probed' = Append(probed, PeerUrl(networkPeers[idx + 1]))
          ELSE /\ pc' = "done" /\ probed' = probed
               /\ result' # <<>>]_vars

\* A body that threw when read was followed by the probe of the next
\* candidate, after an earlier response had been counted.
C3_Witness ==
  /\ op = "findPeers" /\ pc = "probe"
  /\ lastProbe = "threw" /\ checks = 1 /\ peers # <<>>
  /\ Len(probed) = 3

\* C4 (as claimed): the candidates are probed in the order shuffle
\* returned.
C4_ProbedInShuffledOrder ==
  \A i \in DOMAIN probed : probed[i] = PeerUrl(shuffled[i])

\* C5: every accumulated peer passes the filter: no self address, the
\* version class that is probed for, and under version 1 a status of "OK"
\* or 200.
C5_AccumulatedPassFilter ==
  \A i \in DOMAIN peers :
    /\ peers[i].ip \notin {"127.0.0.1", "::ffff:127.0.0.1", "::1"}
    /\ getPeerVersion(peers[i]) = DefaultVersion(version)
    /\ (DefaultVersion(version) = 1 =>
          /\ "status" \in DOMAIN peers[i]
          /\ peers[i].status \in {Str("OK"), Num(200)})

\* Two responses were merged under version 2 and two peers are accumulated.
C5_Witness ==
  /\ version = Num(2) /\ checks = 2 /\ Len(peers) = 2

\* C6: the call fails with the unsupported-network error exactly when no
\* override list was given and the network is not in the seed table; it
\* fails before any probe.
C6_UnsupportedNetwork ==
  (op = "findPeers" /\ pc # "idle") =>
     /\ (err = UnsupportedNetworkError <=>
           (peersOverride = Undef /\ network \notin {"mainnet", "devnet"}))
     /\ (err = UnsupportedNetworkError => pc = "error" /\ probed = <<>>)

\* An unknown network with an override list: the probes ran and the call
\* returned.
C6_Witness ==
  /\ FindPeersReturned
  /\ network = "testnet" /\ peersOverride # Undef /\ Len(probed) = 2

\* ===================================================================
\* Properties of connect (checked under SpecConnect)
\* ===================================================================

\* connect got a list from findPeers and has ended, with a handle or an
\* error.
ConnectEnded ==
  /\ op = "connect" /\ pc \in {"done", "error"}
  /\ err # UnsupportedNetworkError

\* The configuration document declares the core-api plugin and enables it.
DeclaresApi(cfg) ==
  /\ cfg.t = "object"
  /\ "plugins" \in DOMAIN cfg.v
  /\ CoreApi \in DOMAIN cfg.v.plugins
  /\ "enabled" \in DOMAIN cfg.v.plugins[CoreApi]
  /\ cfg.v.plugins[CoreApi].enabled = TRUE

\* C7 (as claimed): connect with a zero or absent version fails with the
\* invalid-version error, so it never returns a handle.
C7_ZeroVersionRejected ==
  (op = "connect" /\ version \in {Undef, Num(0)}) =>
     /\ handle = Null
     /\ (pc = "done" => err = InvalidVersionError)

\* C8: connect with version 2 fails with the no-api-peer error exactly when
\* no configuration fetched for a peer of the discovered list enables the
\* sub-service, after having asked every peer of the list; a handle is only
\* bound to a peer whose configuration enables it, at the configured port.
C8_NoApiPeer ==
  (ConnectEnded /\ version = Num(2)) =>
     /\ (err = NoApiPeerError <=>
           \A i \in DOMAIN fetched : ~DeclaresApi(fetched[i]))
     /\ (err = NoApiPeerError =>
           pc = "error" /\ handle = Null /\ Len(fetched) = Len(result))
     /\ (handle # Null =>
           /\ pc = "done" /\ err = "none"
           /\ DeclaresApi(config) /\ config = fetched[Len(fetched)]
           /\ handle.v.host.ip = result[Len(fetched)].ip
           /\ handle.v.host.port = config.v.plugins[CoreApi].port)

\* Two peers were discovered; the configuration of one could not be fetched,
\* the other's has the sub-service disabled: connect failed.
C8_Witness ==
  /\ ConnectEnded /\ version = Num(2)
  /\ err = NoApiPeerError
  /\ Len(result) = 2 /\ peers # <<>>
  /\ fetched = <<Null, Obj(cfgDisabled)>>

\* C9: connect with version 1 and a non-empty discovered list returns a
\* handle bound to the ip and port of the first peer of that list, and never
\* sends a configuration request.
C9_BindsToFirst ==
  (op = "connect" /\ version = Num(1)) =>
     /\ cfgReqs = <<>> /\ fetched = <<>>
     /\ pc \notin {"config", "configReturned", "selectReturned"}
     /\ (ConnectEnded /\ result # <<>> =>
           /\ pc = "done" /\ err = "none"
           /\ handle = Obj([host |-> [scheme |-> "http://",
                                      ip |-> result[1].ip,
                                      port |-> result[1].port],
                            version |-> 1]))

\* The candidates came back sorted, and the handle is bound to the second
\* candidate given, which the sort ranks first.
C9_Witness ==
  /\ ConnectEnded /\ version = Num(1)
  /\ networkPeers = <<candA, candB>> /\ result = <<candB, candA>>
  /\ handle # Null /\ handle.v.host.ip = candB.ip

\* ===================================================================
\* Properties of selectApiPeer (checked under SpecSelect)
\* ===================================================================

SelectReturned == op = "selectApiPeer" /\ pc = "done"

\* C10: selectApiPeer returns the first peer of the list whose fetched
\* configuration enables the sub-service, with its port replaced by the
\* configured port and every other field as it was; no configuration
\* request is sent for a later peer.
C10_FirstMatchWins ==
  (SelectReturned /\ selResult # Null) =>
     LET k == Len(fetched) IN
     /\ k \in DOMAIN selPeers
     /\ DeclaresApi(fetched[k])
     /\ \A i \in 1..(k - 1) : ~DeclaresApi(fetched[i])
     /\ selResult.t = "object"
     /\ DOMAIN selResult.v = DOMAIN selPeers[k]
     /\ selResult.v.port = fetched[k].v.plugins[CoreApi].port
     /\ \A f \in DOMAIN selPeers[k] \ {"port"} :
          selResult.v[f] = selPeers[k][f]
     /\ \A j \in DOMAIN cfgReqs : cfgReqs[j].peer <= k

\* The first of two peers answered its second attempt with an enabling
\* configuration: it is returned and the second peer is never asked.
C10_Witness ==
  /\ SelectReturned /\ selResult # Null
  /\ Len(selPeers) = 2 /\ selPeers[1] # selPeers[2]
  /\ Len(fetched) = 1 /\ Len(cfgReqs) = 2

\* C11: selectApiPeer returns null, with no error, for an empty list and
\* exactly when no fetched configuration declares the sub-service present
\* and enabled; it returns null only after it has asked every peer of the
\* list for its configuration.
C11_NullWhenNoneEnabled ==
  SelectReturned =>
     /\ err = "none"
     /\ (selPeers = <<>> => selResult = Null /\ cfgReqs = <<>>)
     /\ (selResult = Null <=>
           \A i \in DOMAIN fetched : ~DeclaresApi(fetched[i]))
     /\ (selResult = Null =>
           /\ Len(fetched) = Len(selPeers)
           /\ \A i \in DOMAIN selPeers :
                \E j \in DOMAIN cfgReqs : cfgReqs[j].peer = i)

\* Two peers were asked: the first gave no configuration after three
\* attempts, the second a configuration with the sub-service disabled, and
\* null came back.
C11_Witness ==
  /\ SelectReturned /\ selResult = Null
  /\ Len(selPeers) = 2
  /\ fetched = <<Null, Obj(cfgDisabled)>>
  /\ Len(cfgReqs) = 4

\* The configuration requests sent for peer i of the list, in order.
RequestsFor(i) == SelectSeq(cfgReqs, LAMBDA r : r.peer = i)

\* The host string of peer i, and its companion on port 4040.
GivenHost(i) ==
  Chars("http://") \o Chars(selPeers[i].ip) \o <<":">>
    \o Digits(selPeers[i].port)
CompanionHost(i) ==
  Chars("http://") \o Chars(selPeers[i].ip)
    \o <<":", "4", "0", "4", "0">>

\* C12 (as claimed): for each peer, fetchPeerConfig sends at most three
\* requests, in the order (1) the given host with /config, (2) the same
\* address on port 4040 with /config, (3) the same address on port 4040
\* with no path; and it returns null only after all three were sent.
C12_ThreeAttemptsInOrder ==
  \A i \in DOMAIN selPeers :
    LET rs == RequestsFor(i) IN
    /\ Len(rs) <= 3
    /\ (Len(rs) >= 1 =>
          rs[1].host = GivenHost(i) /\ rs[1].endpoint = Str("/config"))
    /\ (Len(rs) >= 2 =>
          rs[2].host = CompanionHost(i) /\ rs[2].endpoint = Str("/config"))
    /\ (Len(rs) >= 3 =>
          rs[3].host = CompanionHost(i) /\ rs[3].endpoint = Null)
    /\ (i \in DOMAIN fetched /\ fetched[i] = Null => Len(rs) = 3)

\* C17 (as claimed): what fetchPeerConfig returns for a peer is a non-empty
\* configuration object or null, and it is null only when all three
\* attempts were made: a body without a data payload ends no attempt.
C17_ConfigOrNull ==
  \A i \in DOMAIN fetched :
    IF fetched[i] = Null
    THEN Len(RequestsFor(i)) = 3
    ELSE fetched[i].t = "object" /\ DOMAIN fetched[i].v # {}

\* ===================================================================
\* Properties of mergePeerArrays and getPeerVersion (checked under SpecPure)
\* ===================================================================

MergeReturned == op = "mergePeerArrays" /\ pc = "done"

\* Records a and b have the same ip (both lacking one counts as the same).
SameIp(a, b) ==
  IF "ip" \in DOMAIN a
  THEN "ip" \in DOMAIN b /\ a.ip = b.ip
  ELSE "ip" \notin DOMAIN b

\* out is rec overlaid with over: the fields of either, over's values
\* winning.
IsOverlay(out, rec, over) ==
  /\ DOMAIN out = DOMAIN rec \cup DOMAIN over
  /\ \A f \in DOMAIN over : out[f] = over[f]
  /\ \A f \in DOMAIN rec \ DOMAIN over : out[f] = rec[f]

\* The indexes of the incoming records that are appended: the ip is that of
\* no base record and of no earlier incoming record.
AppendedIndexes(base, incoming) ==
  {j \in DOMAIN incoming :
     /\ \A i \in DOMAIN base : ~SameIp(base[i], incoming[j])
     /\ \A k \in 1..(j - 1) : ~SameIp(incoming[k], incoming[j])}

\* C13: the output of mergePeerArrays(base, incoming) is, position by
\* position, each base record overlaid with the first incoming record of
\* its ip (unchanged when there is none), followed by the incoming records
\* whose ip is not yet in the output, in incoming's order; base [A:1, B:2]
\* and incoming [B:22 v2, C:3] give [A:1, B:22 v2, C:3].
C13_MergeSemantics ==
  MergeReturned =>
    LET base == fnArgs.oldArray
        incoming == fnArgs.newArray
        out == fnResult.v
        app == AppendedIndexes(base, incoming)
    IN /\ Len(out) = Len(base) + Cardinality(app)
       /\ \A i \in DOMAIN base :
            LET ms == {j \in DOMAIN incoming : SameIp(base[i], incoming[j])}
            IN IF ms = {} THEN out[i] = base[i]
               ELSE \E j \in ms :
                      /\ \A k \in ms : j <= k
                      /\ IsOverlay(out[i], base[i], incoming[j])
       /\ \A j \in app :
            out[Len(base) + Cardinality({k \in app : k <= j})] = incoming[j]
       /\ (base = <<[ip |-> "A", port |-> 1], [ip |-> "B", port |-> 2]>>
             /\ incoming = <<[ip |-> "B", port |-> 22, version |-> "2"],
                             [ip |-> "C", port |-> 3]>>
           => out = <<[ip |-> "A", port |-> 1],
                      [ip |-> "B", port |-> 22, version |-> "2"],
                      [ip |-> "C", port |-> 3]>>)

\* The example of the specification was merged.
C13_Witness ==
  /\ MergeReturned
  /\ fnArgs.oldArray = <<mergeA, mergeB>>
  /\ fnArgs.newArray = <<mergeB2, mergeC>>
  /\ Len(fnResult.v) = 3

\* C14: merging an empty incoming list returns the base list: the same
\* records with the same fields in the same order.
C14_EmptyIncomingIsIdentity ==
  (MergeReturned /\ fnArgs.newArray = <<>>) =>
     /\ fnResult.t = "array"
     /\ fnResult.v = fnArgs.oldArray

\* A base of two records of the same ip was merged with the empty list.
C14_Witness ==
  /\ MergeReturned
  /\ fnArgs.newArray = <<>>
  /\ fnArgs.oldArray = <<mergeB, mergeB2>>

VersionReturned == op = "getPeerVersion" /\ pc = "done"

\* C15: getPeerVersion returns 1 for a record without version, with an
\* empty version, or with a version that starts with "1." ("1.0.3",
\* "1.6.0-beta", "1."), and 2 for every other version string ("2.1.0",
\* "2.0.0", "10.2.0", "1", "v1.0", "2.1.1.").
C15_VersionClass ==
  VersionReturned =>
    LET peer == fnArgs.peer IN
    /\ fnResult \in {Num(1), Num(2)}
    /\ ("version" \notin DOMAIN peer => fnResult = Num(1))
    /\ ("version" \in DOMAIN peer =>
          /\ (peer.version \in {"", "1.", "1.0.3", "1.6.0-beta"}
                => fnResult = Num(1))
          /\ (peer.version \in {"2.1.0", "2.0.0", "10.2.0", "1", "v1.0",
                                "2.1.1."}
                => fnResult = Num(2)))

\* A version that starts with "1" but not with "1." was classified as 2.
C15_Witness ==
  /\ VersionReturned
  /\ "version" \in DOMAIN fnArgs.peer
  /\ fnArgs.peer.version = "10.2.0"
  /\ fnResult = Num(2)

\* No two records of seq have the same ip.
NoDupIps(seq) ==
  \A i, j \in DOMAIN seq : i # j => ~SameIp(seq[i], seq[j])

\* C18 (as claimed): the output of mergePeerArrays never holds two records
\* of the same ip, whatever the two inputs.
C18_OutputDistinct ==
  MergeReturned => NoDupIps(fnResult.v)

\* C18 (amended): the output of mergePeerArrays holds no two records of
\* the same ip when the base list holds none, whatever the incoming list
\* (several incoming records of one ip included); base records of the same
\* ip are all kept.
C18_DistinctWhenBaseDistinct ==
  MergeReturned =>
     /\ (NoDupIps(fnArgs.oldArray) => NoDupIps(fnResult.v))
     /\ Len(fnResult.v) >= Len(fnArgs.oldArray)

\* Two incoming records of one ip were merged into a base of another ip:
\* one of the two is in the output.
C18_Witness ==
  /\ MergeReturned
  /\ fnArgs.oldArray = <<mergeA>>
  /\ fnArgs.newArray = <<mergeB, mergeB2>>
  /\ Len(fnResult.v) = 2

\* ===================================================================
\* Further properties of findPeers (checked under Spec)
\* ===================================================================

\* C16 (as claimed): checks is incremented only by a probe whose peer list
\* is non-empty after filtering.
C16_CountsOnlyIfKept ==
  [][checks' > checks => lastProbe' = "kept"]_vars

\* C16 (amended): checks is incremented by exactly the probes whose peer
\* list is non-empty before filtering; a response whose peers are all
\* dropped by the filter adds one to checks and leaves the accumulated
\* list as it was.
C16_CountsIfListed ==
  [][/\ (checks' > checks <=>
           (pc = "probe" /\ lastProbe' \in {"dropped", "kept"}))
     /\ (pc = "probe" /\ lastProbe' = "dropped" =>
           checks' = checks + 1 /\ peers' = peers)]_vars

\* The first response held peers that the filter all dropped: it was
\* counted and nothing is accumulated.
C16_Witness ==
  /\ op = "findPeers"
  /\ lastProbe = "dropped" /\ checks = 1 /\ peers = <<>>

\* C19: in every state of a findPeers run the accumulated list holds no two
\* records of the same ip, whatever the responses held.
C19_AccumulatedDistinct ==
  op = "findPeers" => NoDupIps(peers)

\* Two responses reported the peer 10.0.0.3, the first with a version and
\* the second without: one record is accumulated, the second sighting with
\* the version of the first.
C19_Witness ==
  /\ FindPeersReturned
  /\ checks = 2
  /\ peers = <<[ip |-> "10.0.0.3", port |-> 4001, status |-> Str("OK"),
                height |-> 6, delay |-> 30, version |-> "1.0.3"]>>

\* ===================================================================
\* Termination (checked under SpecLive)
\* ===================================================================

\* C20: when every request is settled, findPeers sends at most one request
\* per candidate, the k-th request to the k-th candidate, and returns;
\* selectApiPeer sends at most 3 configuration requests per peer and
\* returns.
C20_BoundedAndTerminates ==
  /\ [](op = "findPeers" =>
          /\ Len(probed) <= Len(networkPeers)
          /\ \A k \in DOMAIN probed : probed[k] = PeerUrl(networkPeers[k]))
  /\ [](op = "selectApiPeer" =>
          \A i \in DOMAIN selPeers : Len(RequestsFor(i)) <= 3)
  /\ ((op = "findPeers" /\ pc = "probe") ~> FindPeersReturned)
  /\ ((op = "selectApiPeer" /\ pc = "config") ~> SelectReturned)

\* findPeers returned after the requests to all three candidates were
\* rejected.
C20_Witness ==
  /\ FindPeersReturned
  /\ Len(networkPeers) = 3 /\ Len(probed) = 3
  /\ lastProbe = "rejected" /\ checks = 0
  /\ result # <<>>

====
